---- MODULE Spec2Model ----
(***************************************************************************)
(* Model of the reMarkable task prioritizer                                *)
(* (src/src/agents/smart_todo_list_schedular/task_prioritizer.py) and of   *)
(* the Gmail client it drives                                              *)
(* (src/src/clients/google/google_gmail_client.py).                        *)
(*                                                                         *)
(* Spec        : repeated runs of main() over a mailbox, every             *)
(*               collaborator call returning any outcome it can produce.   *)
(* LedgerSpec  : arbitrary sequences of load_processed_email_ids and       *)
(*               save_processed_email_id calls on the ledger file.         *)
(* ResolveSpec : parse_duration_string and the window resolution of        *)
(*               create_calendar_events_from_tasks on any one task.        *)
(* CommitSpec  : two calls of save_processed_email_id, their steps          *)
(*               interleaved.                                              *)
(***************************************************************************)
EXTENDS Integers, Sequences, FiniteSets, TLC

\* ------------------------------------------------------------------ bounds
NumIds == 2       \* message ids in the mailbox
MaxAtt == 2       \* attachments downloaded from one message
MaxTasks == 2     \* tasks collected from one message
MaxLedger == 3    \* lines of the ledger file in LedgerSpec
MaxDigits == 4    \* characters of a line of the ledger file
MaxDay == 2       \* days a due date or the clock is drawn from in ResolveSpec
MaxFaulty == 1    \* lines of a ledger file the file system fails on (a stat
                  \* that fails at line 39, a write cut short at line 46)

\* message ids: texts of two characters, '11', '12', ...
Ids == {10 + i : i \in 1..NumIds}

\* ------------------------------------------------------------ python values
None == "<None>"

\* bool(s) of an Optional[str]
Truthy(s) == s # None /\ s # ""

\* str.strip() on the texts the model draws
Strip(s) == IF s = "  " THEN "" ELSE s

Range(s) == {s[i] : i \in DOMAIN s}

Count(s, x) == Cardinality({i \in DOMAIN s : s[i] = x})

\* texts an OCR call or a message part can hold: nothing, empty, blank, content
Texts == {None, "", "  ", "call bob"}

\* --------------------------------------------------------------- the ledger
\* A text without blanks is the number its characters spell ('112' is 112, the
\* characters being digits other than 0).
\* The file PROCESSED_EMAIL_IDS_LOG: lines holds the texts of its lines in
\* order, and eol says that the file ends with '\n' (or is empty, or missing).
\* After whole writes every line is one id. Without eol the last line is still
\* open: what is written next runs on into it.
NoFile == [lines |-> <<>>, eol |-> TRUE]

RECURSIVE Digits(_)
\* len() of a text
Digits(text) == IF text < 10 THEN 1 ELSE 1 + Digits(text \div 10)

RECURSIVE Shift(_, _)
\* the text a with n more characters to come after it
Shift(a, n) == IF n = 0 THEN a ELSE Shift(10 * a, n - 1)

\* the text a followed by the text b
Concat(a, b) == Shift(a, Digits(b)) + b

RECURSIVE Prefix(_, _)
\* text[:n], for 1 <= n <= len(text)
Prefix(text, n) ==
    IF Digits(text) <= n THEN text ELSE Prefix(text \div 10, n)

\* load_processed_email_ids on a file line 39 finds: the set of the non-blank
\* lines, stripped (lines 41-42); a last line without '\n' is a line
load_processed_email_ids(file) == Range(file.lines)

\* f.write(text), with or without a '\n' after it, on a file opened in mode
\* 'a': the characters go to the end of the file
Write(file, text, newline) ==
    [lines |-> IF file.eol
               THEN Append(file.lines, text)
               ELSE [file.lines EXCEPT ![Len(file.lines)] = Concat(@, text)],
     eol |-> newline]

\* save_processed_email_id: open(..., 'a'), email_id + '\n' written
save_processed_email_id(file, email_id) == Write(file, email_id, TRUE)

\* save_processed_email_id with the write cut short: the file cannot grow any
\* further (disk or quota full, RLIMIT_FSIZE) once n characters of
\* email_id + '\n' are in it: a part of the id, or the whole id without its
\* '\n'. The close of line 45 raises OSError
save_cut_short(file, email_id, n) == Write(file, Prefix(email_id, n), FALSE)

\* the numbers of characters a write of email_id + '\n' can be cut after with
\* something written and the '\n' not
CutPoints(email_id) == 1..Digits(email_id)

\* characters of the last line when it is open
OpenLength(file) ==
    IF file.eol THEN 0 ELSE Digits(file.lines[Len(file.lines)])

\* the file system is made to fail on short files only, and on lines that can
\* take one more id after the cut
CanCut(file, email_id, n) ==
    /\ Len(file.lines) <= MaxFaulty
    /\ OpenLength(file) + n + Digits(email_id) <= MaxDigits

\* leaving the with block of line 45: the buffered line goes out in one write
\* on a descriptor opened in mode 'a' (O_APPEND): the kernel puts it at the end
\* of the file as it is then, wherever the file ended at open()
flush_on_close(file, position, email_id) ==
    save_processed_email_id(file, email_id)

\* outcomes of an open() or a read() on the ledger file
FileOutcomes == {"ok", "OSError"}

\* outcomes of the write: whole; nothing written and OSError; or cut short
\* after some characters and OSError
WriteOutcomes == {"ok", "OSError", "cut_short"}

\* what the with block of lines 45-46 leaves in the file; n is the number of
\* characters that got into it when the write was cut short
Written(file, email_id, outcome, n) ==
    CASE outcome = "ok" -> save_processed_email_id(file, email_id)
      [] outcome = "cut_short" -> save_cut_short(file, email_id, n)
      [] OTHER -> file

\* what a call of load_processed_email_ids meets. "ok": the file is found and
\* read. "absent": os.path.exists (line 39) answers False; it does so when
\* there is no file, and also when the stat of the path fails (a directory of
\* the path that cannot be searched, a link that leads nowhere), whatever the
\* file holds. "OSError": the file is found and open() or the read raises
LoadOutcomes == {"ok", "absent", "OSError"}

\* lines 38-42: what a call that returns gives back
Snapshot(file, outcome) ==
    IF outcome = "absent" THEN {} ELSE load_processed_email_ids(file)

\* the sets a call of load_processed_email_ids can return on a file
Snapshots(file) ==
    {Snapshot(file, outcome) : outcome \in LoadOutcomes \ {"OSError"}}

\* what the call did, as the caller sees it: it returned, or it raised
Seen(outcome) ==
    IF outcome \in {"OSError", "cut_short"} THEN "OSError" ELSE "ok"

\* ------------------------------------------------------------ dates, tasks
MinutesPerDay == 1440
MinutesPerHour == 60

NoDue == [kind |-> "none", day |-> 0, minute |-> 0]
DateOf(d) == [kind |-> "date", day |-> d, minute |-> 0]
DateTimeOf(d, m) == [kind |-> "datetime", day |-> d, minute |-> m]

\* datetime + timedelta(minutes=m)
AddMinutes(dt, m) ==
    [kind |-> "datetime",
     day |-> dt.day + ((dt.minute + m) \div MinutesPerDay),
     minute |-> (dt.minute + m) % MinutesPerDay]

\* date + timedelta(days=n)
AddDays(d, n) == [kind |-> "date", day |-> d.day + n, minute |-> 0]

\* datetime.fromisoformat on the strings the model draws. A day is the
\* proleptic ordinal of its date (date.toordinal(): 0001-01-03 is day 3). A
\* well-formed timestamp gives its datetime, a date alone gives its midnight,
\* anything else raises ValueError
fromisoformat(s) ==
    CASE s = "0001-01-03T14:30:00" -> [exc |-> "None", dt |-> DateTimeOf(3, 870)]
      [] s = "0001-01-05T23:30:00" -> [exc |-> "None", dt |-> DateTimeOf(5, 1410)]
      [] s = "0001-01-05" -> [exc |-> "None", dt |-> DateTimeOf(5, 0)]
      [] OTHER -> [exc |-> "ValueError", dt |-> NoDue]

\* lines 68-82 as they run with re bound (an import re at the top of the
\* module): the quantity is taken as it is written, 0 included
parse_duration_with_re(duration_str) ==
    CASE duration_str = "45 minutes" -> [exc |-> "None", minutes |-> 45]
      [] duration_str \in {"2 hours", "2 HOURS"} ->
            [exc |-> "None", minutes |-> 2 * MinutesPerHour]
      [] duration_str = "0 minutes" -> [exc |-> "None", minutes |-> 0]
      [] OTHER -> [exc |-> "None", minutes |-> MinutesPerHour]

\* parse_duration_string: a falsy text gives the default hour; any other text
\* reaches re.match, and the module never imports re, so the call raises
\* NameError
parse_duration_string(duration_str) ==
    IF ~Truthy(duration_str)
    THEN [exc |-> "None", minutes |-> MinutesPerHour]
    ELSE [exc |-> "NameError", minutes |-> 0]

Raised(e) == [exc |-> e, start |-> NoDue, end |-> NoDue]
Window(s, e) == [exc |-> "None", start |-> s, end |-> e]

EveningCutoffHour == 17
DefaultStartMinute == 540

\* lines 153-157 / 161-165: date.today(), datetime.now().hour and date.today()
\* again are three readings of the clock
DefaultSlot(today1, hour, today2) ==
    LET event_date == IF hour >= EveningCutoffHour THEN today2 + 1 ELSE today1
        start == DateTimeOf(event_date, DefaultStartMinute)
    IN  Window(start, AddMinutes(start, MinutesPerHour))

\* start + parse_duration_string(...), the NameError propagating
Timed(start, duration_str) ==
    LET d == parse_duration_string(duration_str)
    IN  IF d.exc # "None" THEN Raised(d.exc)
        ELSE Window(start, AddMinutes(start, d.minutes))

\* the cascade without the except ValueError clauses of lines 136 and 150: a
\* suggested timestamp that does not parse leaves the function
ResolveWindowNoExcept(task, today1, hour, today2) ==
    LET due == task.dueDate
        sug == task.suggestedTimeOfDay
        dur == task.suggestedDuration
        iso == fromisoformat(sug)
    IN  IF due.kind = "datetime" THEN Timed(due, dur)
        ELSE IF due.kind = "date"
        THEN IF Truthy(sug)
             THEN IF iso.exc # "None" THEN Raised(iso.exc)
                  ELSE Timed(DateTimeOf(due.day, iso.dt.minute), dur)
             ELSE Window(due, AddDays(due, 1))
        ELSE IF Truthy(sug)
        THEN IF iso.exc # "None" THEN Raised(iso.exc) ELSE Timed(iso.dt, dur)
        ELSE DefaultSlot(today1, hour, today2)

\* the window cascade of create_calendar_events_from_tasks for one task
ResolveWindow(task, today1, hour, today2) ==
    LET due == task.dueDate
        sug == task.suggestedTimeOfDay
        dur == task.suggestedDuration
        iso == fromisoformat(sug)
    IN  IF due.kind = "datetime" THEN Timed(due, dur)
        ELSE IF due.kind = "date"
        THEN IF Truthy(sug) /\ iso.exc = "None"
             THEN Timed(DateTimeOf(due.day, iso.dt.minute), dur)
             ELSE Window(due, AddDays(due, 1))
        ELSE IF Truthy(sug) /\ iso.exc = "None" THEN Timed(iso.dt, dur)
        ELSE DefaultSlot(today1, hour, today2)

\* tasks the parser hands back in the pipeline runs
PlainTask ==
    [dueDate |-> NoDue, suggestedTimeOfDay |-> None, suggestedDuration |-> None]
TimedTask ==
    [dueDate |-> DateTimeOf(2, 600), suggestedTimeOfDay |-> None,
     suggestedDuration |-> "30 minutes"]
TaskPool == {PlainTask, TimedTask}

\* clock readings offered to a resolution in the pipeline runs
ClockDays == {1}
ClockHours == {16, 18}

\* ----------------------------------------- inputs of the window resolution
\* Task.dueDate: None, a date, a datetime (at midnight, at 10:00)
DueInputs ==
    {NoDue} \cup {DateOf(d) : d \in 1..MaxDay}
            \cup {DateTimeOf(d, m) : d \in 1..MaxDay, m \in {0, 600}}

\* Task.suggestedTimeOfDay: absent, empty, ISO timestamps, an ISO date, other
\* text
SuggestedInputs ==
    {None, "", "0001-01-03T14:30:00", "0001-01-05T23:30:00", "0001-01-05",
     "not-a-date"}

\* Task.suggestedDuration: absent, empty, a quantity with a unit, other text
DurationInputs ==
    {None, "", "45 minutes", "2 hours", "2 HOURS", "0 minutes", "flexible",
     "gibberish"}

TaskInputs ==
    [dueDate : DueInputs, suggestedTimeOfDay : SuggestedInputs,
     suggestedDuration : DurationInputs]

\* The clock as lines 153-155 (161-163) read it: date.today(), then
\* datetime.now() (its day and its hour), then date.today() again when the
\* hour test passes. Time moves on between the readings: they fall on one
\* day, or midnight passes after the first or after the second.
ClockReading(d1, dn, h, d2) ==
    [today1 |-> d1, now_day |-> dn, hour |-> h, today2 |-> d2]
ClockReadings ==
    {ClockReading(d, d, h, d) :
        d \in 1..MaxDay, h \in {0, EveningCutoffHour - 1, EveningCutoffHour, 23}}
    \cup {ClockReading(d, d, 23, d + 1) : d \in 1..MaxDay}
    \cup {ClockReading(d, d + 1, 0, d + 1) : d \in 1..MaxDay}

\* parse_duration_string not called yet, the window not resolved yet
NotCalled == [exc |-> "NotCalled", minutes |-> 0]
NotResolved == Raised("NotResolved")

\* --------------------------------------------------------------- the state
VARIABLES
    ledger,                 \* PROCESSED_EMAIL_IDS_LOG: the file
    SCOPES,                 \* GmailClient.SCOPES of the run's client
    pc,                     \* position of main(): idle before the first run
    exc,                    \* the exception that left main(), or "None"
    excAt,                  \* the position it was raised at
    processed_email_ids,    \* main: the ledger as read at line 202
    message_ids,            \* main: what search_messages returned
    new_message_ids,        \* main: the candidates left by line 212
    idx,                    \* main: position of the for loop of line 219
    downloaded,             \* main: attachment paths still to go through
    all_tasks_from_email,   \* main: tasks collected for the current message
    tix,                    \* position of the for loop of line 100
    \* history of the current run
    visited,                \* ids the for loop of line 219 has reached
    failed,                 \* ids with a collaborator failure in a stage
    noTasks,                \* ids whose content gave no task (line 267, 259)
    withTasks,              \* ids whose tasks went to line 268
    evt,                    \* ids create_event was called for
    evtFailed,              \* ids with a create_event call that failed
    marked,                 \* ids mark_message_as_read returned True for
    saved,                  \* ids appended to the ledger, in order
    \* history across runs
    created,                \* ids create_event was called for in earlier runs
    prev,                   \* the candidates of the run before, if all were committed
    \* history of LedgerSpec
    call,                   \* the last ledger call
    \* ResolveSpec: one task through the window resolution
    one_task,               \* the Task of the turn of the loop of line 100
    clock,                  \* what the clock gives to the readings of the turn
    duration_td,            \* what parse_duration_string(suggestedDuration) gave
    resolved,               \* start_datetime_for_event, end_datetime_for_event
    calls,                  \* the windows create_event was called with
    \* CommitSpec: two calls of save_processed_email_id at the same time
    workers,                \* each call: its position, its id, its file offset
    before                  \* the lines of the file before the two calls

progVars == <<ledger, SCOPES, pc, exc, excAt, processed_email_ids, message_ids,
              new_message_ids, idx, downloaded, all_tasks_from_email, tix>>
runVars == <<visited, failed, noTasks, withTasks, evt, evtFailed, marked,
             saved>>
histVars == <<created, prev>>
ledgerVars == <<call>>
resolveVars == <<one_task, clock, duration_td, resolved, calls>>
commitVars == <<workers, before>>
vars == <<progVars, runVars, histVars, ledgerVars, resolveVars, commitVars>>

\* a ledger call: outcome is "ok" when the call returned, else what it raised
NoCall == [op |-> "none", id |-> 0, outcome |-> "ok"]

\* main() not entered, nothing of a run in memory
NotStarted ==
    /\ SCOPES = "readonly"
    /\ pc = "idle"
    /\ exc = "None"
    /\ excAt = "none"
    /\ processed_email_ids = {}
    /\ message_ids = <<>>
    /\ new_message_ids = <<>>
    /\ idx = 0
    /\ downloaded = 0
    /\ all_tasks_from_email = <<>>
    /\ tix = 0
    /\ visited = {}
    /\ failed = {}
    /\ noTasks = {}
    /\ withTasks = {}
    /\ evt = {}
    /\ evtFailed = {}
    /\ marked = {}
    /\ saved = <<>>
    /\ created = {}
    /\ prev = {}
    /\ call = NoCall

\* nothing has run yet: no ledger file, main() not entered
Idle ==
    /\ ledger = NoFile
    /\ NotStarted

\* no call of save_processed_email_id under way
NoWorkers == <<>>

Init ==
    /\ Idle
    /\ workers = NoWorkers
    /\ before = <<>>
    /\ one_task = PlainTask
    /\ clock = ClockReading(1, 1, 16, 1)
    /\ duration_td = NotCalled
    /\ resolved = NotResolved
    /\ calls = <<>>

\* ------------------------------------------------------------ collaborators
\* what a Google API execute() does: it answers, raises HttpError, or raises
\* something else (transport, credentials)
RemoteOutcomes == {"ok", "HttpError", "OtherError"}

Returns(v) == [exc |-> "None", ret |-> v]
Throws(e) == [exc |-> e, ret |-> None]

\* GmailClient.get_message: HttpError is caught and None returned
get_message(remote) ==
    CASE remote = "ok" -> Returns("message")
      [] remote = "HttpError" -> Returns(None)
      [] OTHER -> Throws("Exception")

\* GmailClient.mark_message_as_read: False without a modify scope, without any
\* remote call; HttpError is caught and False returned
mark_message_as_read(scopes, remote) ==
    IF scopes # "modify" THEN Returns(FALSE)
    ELSE CASE remote = "ok" -> Returns(TRUE)
           [] remote = "HttpError" -> Returns(FALSE)
           [] OTHER -> Throws("Exception")

\* GmailClient.SCOPES: DEFAULT_SCOPES, or GOOGLE_GMAIL_SCOPES when set
ScopeChoices == {"readonly", "modify"}

\* GoogleCalendarClient.create_event: it reports success or failure to its
\* caller, or raises
CreateOutcomes == {"ok", "fail", "raise"}

\* LLMTaskParserService.parse_text_for_tasks: at most n tasks
TaskLists(n) == UNION {[1..k -> TaskPool] : k \in 0..n}

\* search_messages: message ids, each once
CandLists ==
    {s \in UNION {[1..k -> Ids] : k \in 0..NumIds} :
        \A i, j \in DOMAIN s : i # j => s[i] # s[j]}

\* ------------------------------------------------------------------- main()
\* line 212 without the test against the ledger
FilterNothing(ids, processed) == ids

\* line 212: the candidates not in the ledger snapshot, in listing order
FilterNew(ids, processed) == SelectSeq(ids, LAMBDA m : m \notin processed)

\* line 267: if all_tasks_from_email
ShouldMaterialize(tasks) == tasks # <<>>

\* line 269 without the test
CommitAlways(mark) == mark.exc = "None"

\* line 269: if gmail_client.mark_message_as_read(msg_id)
ShouldCommit(mark) == mark.exc = "None" /\ mark.ret = TRUE

msg_id == new_message_ids[idx]

\* the loop stepping over the item after the current one
ContinueSkipping ==
    /\ idx' = idx + 2
    /\ pc' = IF idx + 1 < Len(new_message_ids) THEN "get" ELSE "done"

\* the next iteration of the for loop of line 219, or line 277
Continue ==
    /\ idx' = idx + 1
    /\ pc' = IF idx < Len(new_message_ids) THEN "get" ELSE "done"

\* an exception nothing catches leaves main()
Raise(e) ==
    /\ exc' = e
    /\ excAt' = pc
    /\ pc' = "done"

NoRaise == UNCHANGED <<exc, excAt>>

\* the locals of the loop body; once main() is left they are gone
Locals(tasks, paths, t) ==
    /\ all_tasks_from_email' = IF pc' = "done" THEN <<>> ELSE tasks
    /\ downloaded' = IF pc' = "done" THEN 0 ELSE paths
    /\ tix' = IF pc' = "done" THEN 0 ELSE t

KeepLocals == Locals(all_tasks_from_email, downloaded, tix)

\* every candidate of the run gave tasks, had every event created and was
\* committed
PerfectRun ==
    /\ pc = "done"
    /\ exc = "None"
    /\ \A id \in Range(message_ids) :
          Count(saved, id) = 1 /\ id \in evt /\ id \notin evtFailed

\* lines 184-193: os.makedirs raises OSError when the download directory
\* cannot be made (the path is a file, the parent is read-only); the
\* constructors of the clients and services let through what they do not
\* catch (GmailClient._authenticate catches the HttpError of build() only)
StartOutcomes == {"ok", "OSError", "Exception"}

\* lines 181-200: the download directory is made and the clients are built;
\* an exception of these lines leaves main, and without a service main returns
StartRun ==
    /\ pc \in {"idle", "done"}
    /\ \E start \in StartOutcomes, gmail_ok, calendar_ok \in BOOLEAN,
          scopes \in ScopeChoices :
          CASE start = "ok" ->
                  /\ SCOPES' = scopes
                  /\ pc' = IF gmail_ok /\ calendar_ok THEN "load" ELSE "done"
                  /\ exc' = "None"
                  /\ excAt' = "none"
            [] start = "OSError" ->
                  /\ UNCHANGED SCOPES
                  /\ Raise(start)
            [] OTHER ->
                  /\ SCOPES' = scopes
                  /\ Raise(start)
    /\ processed_email_ids' = {}
    /\ message_ids' = <<>>
    /\ new_message_ids' = <<>>
    /\ idx' = 0
    /\ downloaded' = 0
    /\ all_tasks_from_email' = <<>>
    /\ tix' = 0
    /\ visited' = {}
    /\ failed' = {}
    /\ noTasks' = {}
    /\ withTasks' = {}
    /\ evt' = {}
    /\ evtFailed' = {}
    /\ marked' = {}
    /\ saved' = <<>>
    /\ prev' = IF PerfectRun THEN Range(message_ids) ELSE {}
    /\ created' = created \cup evt
    /\ call' = NoCall
    /\ UNCHANGED <<ledger, resolveVars, commitVars>>

\* lines 202-203: the ledger is read. A file line 39 does not find gives the
\* empty set, whatever it holds; a failing open() or read() leaves main
LoadLedger ==
    /\ pc = "load"
    /\ \E outcome \in LoadOutcomes :
          /\ outcome = "absent" => Len(ledger.lines) <= MaxFaulty
          /\ call' = [op |-> "load", id |-> 0, outcome |-> Seen(outcome)]
          /\ IF outcome = "OSError"
             THEN /\ Raise(outcome)
                  /\ UNCHANGED processed_email_ids
             ELSE /\ processed_email_ids' = Snapshot(ledger, outcome)
                  /\ pc' = "search"
                  /\ NoRaise
    /\ KeepLocals
    /\ UNCHANGED <<ledger, SCOPES, message_ids, new_message_ids, idx>>
    /\ UNCHANGED <<runVars, histVars, resolveVars, commitVars>>

\* lines 211-217: the listing, filtered against the snapshot; search_messages
\* returns [] on HttpError
Search ==
    /\ pc = "search"
    /\ \E remote \in RemoteOutcomes, cands \in CandLists :
          IF remote = "OtherError"
          THEN /\ Raise("Exception")
               /\ UNCHANGED <<message_ids, new_message_ids, idx>>
          ELSE LET listed == IF remote = "ok" THEN cands ELSE <<>>
                   new == FilterNew(listed, processed_email_ids)
               IN  /\ message_ids' = listed
                   /\ new_message_ids' = new
                   /\ idx' = IF new = <<>> THEN 0 ELSE 1
                   /\ pc' = IF new = <<>> THEN "done" ELSE "get"
                   /\ NoRaise
    /\ KeepLocals
    /\ UNCHANGED <<ledger, SCOPES, processed_email_ids>>
    /\ UNCHANGED <<runVars, histVars, resolveVars, commitVars, ledgerVars>>

\* lines 219-225: the message is fetched; None skips the item
GetMessage ==
    /\ pc = "get"
    /\ visited' = visited \cup {msg_id}
    /\ \E remote \in RemoteOutcomes :
          LET message == get_message(remote)
          IN  /\ failed' = IF remote = "ok" THEN failed ELSE failed \cup {msg_id}
              /\ IF message.exc # "None"
                 THEN Raise(message.exc) /\ UNCHANGED idx
                 ELSE IF message.ret = None
                 THEN Continue /\ NoRaise
                 ELSE pc' = "download" /\ NoRaise /\ UNCHANGED idx
    /\ KeepLocals
    /\ UNCHANGED <<ledger, SCOPES, processed_email_ids, message_ids,
                   new_message_ids>>
    /\ UNCHANGED <<noTasks, withTasks, evt, evtFailed, marked, saved>>
    /\ UNCHANGED <<histVars, resolveVars, commitVars, ledgerVars>>

\* line 227 left out: the list of the item before is carried on
KeepTaskList(tasks) == tasks

\* line 227: all_tasks_from_email = []
FreshTaskList(tasks) == <<>>

\* lines 227-236, 257: the task list is reset and the attachments downloaded.
\* download_attachments returns the paths written so far when a part fails
\* (its own except clauses); what it raises is caught at line 232
Download ==
    /\ pc = "download"
    /\ \/ \E n \in 0..MaxAtt, part_failed \in BOOLEAN :
             /\ pc' = IF n > 0 THEN "attach" ELSE "body"
             /\ Locals(FreshTaskList(all_tasks_from_email), n, tix)
             /\ failed' = IF part_failed
                          THEN failed \cup {msg_id} ELSE failed
             /\ UNCHANGED idx
       \/ /\ Continue
          /\ Locals(FreshTaskList(all_tasks_from_email), 0, tix)
          /\ failed' = failed \cup {msg_id}
    /\ NoRaise
    /\ UNCHANGED <<ledger, SCOPES, processed_email_ids, message_ids,
                   new_message_ids>>
    /\ UNCHANGED <<visited, noTasks, withTasks, evt, evtFailed, marked, saved>>
    /\ UNCHANGED <<histVars, resolveVars, commitVars, ledgerVars>>

\* process_content_for_tasks: the parser's answer for a text with content,
\* [] for an empty or blank one
process_content_for_tasks(extracted_text, parsed) ==
    IF Truthy(extracted_text) /\ Strip(extracted_text) # "" THEN parsed ELSE <<>>

\* the Task objects made from the content of message id: each remembers the
\* message it was read from
FromItem(tasks, id) ==
    [i \in DOMAIN tasks |->
        [dueDate |-> tasks[i].dueDate,
         suggestedTimeOfDay |-> tasks[i].suggestedTimeOfDay,
         suggestedDuration |-> tasks[i].suggestedDuration,
         origin |-> id]]

\* lines 250-256: the tasks of one attachment's text join the list and the loop
\* of line 238 moves on
Extend(tasks) ==
    /\ pc' = IF downloaded = 1 THEN "decide" ELSE "attach"
    /\ Locals(all_tasks_from_email \o FromItem(tasks, msg_id), downloaded - 1,
              tix)
    /\ NoRaise
    /\ UNCHANGED failed

\* lines 254-255: os.remove of the attachment file raises (the download
\* directory is read-only): nothing catches it, and no collaborator has failed
RemoveRaises ==
    /\ Raise("OSError")
    /\ UNCHANGED failed
    /\ KeepLocals

\* an OCR or parser call raises: nothing catches it
StageRaises ==
    /\ Raise("Exception")
    /\ failed' = failed \cup {msg_id}
    /\ KeepLocals

\* lines 238-256: one attachment: OCR by file type (none for an unsupported
\* type), then the parser on a text that has content, then the file is removed
Attach ==
    /\ pc = "attach"
    /\ \/ Extend(<<>>)
       \/ StageRaises
       \/ RemoveRaises
       \/ \E extracted_text \in Texts :
             IF Truthy(extracted_text) /\ Strip(extracted_text) # ""
             THEN \E parsed \in TaskLists(MaxTasks - Len(all_tasks_from_email)) :
                     Extend(process_content_for_tasks(extracted_text, parsed))
             ELSE Extend(IF Truthy(extracted_text)
                         THEN process_content_for_tasks(extracted_text, <<>>)
                         ELSE <<>>)
    /\ UNCHANGED <<ledger, SCOPES, processed_email_ids, message_ids,
                   new_message_ids, idx>>
    /\ UNCHANGED <<visited, noTasks, withTasks, evt, evtFailed, marked, saved>>
    /\ UNCHANGED <<histVars, resolveVars, commitVars, ledgerVars>>

\* lines 258-259: no attachment: GmailClient.get_email_body_text is called, and
\* the class has no such attribute
Body ==
    /\ pc = "body"
    /\ Raise("AttributeError")
    /\ noTasks' = noTasks \cup {msg_id}
    /\ KeepLocals
    /\ UNCHANGED <<ledger, SCOPES, processed_email_ids, message_ids,
                   new_message_ids, idx>>
    /\ UNCHANGED <<visited, failed, withTasks, evt, evtFailed, marked, saved>>
    /\ UNCHANGED <<histVars, resolveVars, commitVars, ledgerVars>>

\* lines 267, 274-275: with tasks the events are created, without the item is
\* left as it is
Decide ==
    /\ pc = "decide"
    /\ noTasks' = IF all_tasks_from_email = <<>>
                  THEN noTasks \cup {msg_id} ELSE noTasks
    /\ withTasks' = IF ShouldMaterialize(all_tasks_from_email)
                    THEN withTasks \cup {msg_id} ELSE withTasks
    /\ IF ShouldMaterialize(all_tasks_from_email)
       THEN /\ pc' = "create"
            /\ Locals(all_tasks_from_email, downloaded, 1)
            /\ UNCHANGED idx
       ELSE Continue /\ KeepLocals
    /\ NoRaise
    /\ UNCHANGED <<ledger, SCOPES, processed_email_ids, message_ids,
                   new_message_ids>>
    /\ UNCHANGED <<visited, failed, evt, evtFailed, marked, saved>>
    /\ UNCHANGED <<histVars, resolveVars, commitVars, ledgerVars>>

\* create_calendar_events_from_tasks, lines 90-92 and one turn of the loop of
\* line 100: the window is resolved, then create_event is called and what it
\* returns is dropped
CreateEvent ==
    /\ pc = "create"
    /\ IF all_tasks_from_email = <<>>
       THEN /\ pc' = "mark"
            /\ Locals(all_tasks_from_email, downloaded, 0)
            /\ NoRaise
            /\ UNCHANGED <<failed, evt, evtFailed>>
       ELSE \E today1, today2 \in ClockDays, hour \in ClockHours,
               outcome \in CreateOutcomes :
               LET task == all_tasks_from_email[tix]
                   window == ResolveWindow(task, today1, hour, today2)
               IN  IF window.exc # "None"
                   THEN /\ Raise(window.exc)
                        /\ KeepLocals
                        /\ UNCHANGED <<failed, evt, evtFailed>>
                   ELSE /\ evt' = evt \cup {msg_id}
                        /\ evtFailed' = IF outcome = "ok" THEN evtFailed
                                        ELSE evtFailed \cup {msg_id}
                        /\ failed' = IF outcome = "ok" THEN failed
                                     ELSE failed \cup {msg_id}
                        /\ IF outcome = "raise"
                           THEN Raise("Exception") /\ KeepLocals
                           ELSE /\ NoRaise
                                /\ pc' = IF tix < Len(all_tasks_from_email)
                                         THEN "create" ELSE "mark"
                                /\ Locals(all_tasks_from_email, downloaded,
                                          IF tix < Len(all_tasks_from_email)
                                          THEN tix + 1 ELSE 0)
    /\ UNCHANGED <<ledger, SCOPES, processed_email_ids, message_ids,
                   new_message_ids, idx>>
    /\ UNCHANGED <<visited, noTasks, withTasks, marked, saved>>
    /\ UNCHANGED <<histVars, resolveVars, commitVars, ledgerVars>>

\* lines 269, 272-273: the message is marked as read; False leaves the item
\* uncommitted
MarkRead ==
    /\ pc = "mark"
    /\ \E remote \in RemoteOutcomes :
          LET mark == mark_message_as_read(SCOPES, remote)
          IN  /\ marked' = IF mark.exc = "None" /\ mark.ret = TRUE
                           THEN marked \cup {msg_id} ELSE marked
              /\ IF mark.exc # "None"
                 THEN Raise(mark.exc) /\ UNCHANGED idx
                 ELSE IF ShouldCommit(mark)
                 THEN pc' = "save" /\ NoRaise /\ UNCHANGED idx
                 ELSE Continue /\ NoRaise
    /\ KeepLocals
    /\ UNCHANGED <<ledger, SCOPES, processed_email_ids, message_ids,
                   new_message_ids>>
    /\ UNCHANGED <<visited, failed, noTasks, withTasks, evt, evtFailed, saved>>
    /\ UNCHANGED <<histVars, resolveVars, commitVars, ledgerVars>>

\* lines 270-271: the id is appended to the ledger; a failing open() or write()
\* leaves main, with or without a part of the line in the file
Save ==
    /\ pc = "save"
    /\ \E outcome \in WriteOutcomes, n \in CutPoints(msg_id) :
          /\ outcome = "cut_short" => CanCut(ledger, msg_id, n)
          /\ call' = [op |-> "save", id |-> msg_id, outcome |-> Seen(outcome)]
          /\ ledger' = Written(ledger, msg_id, outcome, n)
          /\ IF outcome = "ok"
             THEN /\ saved' = Append(saved, msg_id)
                  /\ Continue
                  /\ NoRaise
             ELSE /\ Raise(Seen(outcome))
                  /\ UNCHANGED <<saved, idx>>
    /\ KeepLocals
    /\ UNCHANGED <<SCOPES, processed_email_ids, message_ids, new_message_ids>>
    /\ UNCHANGED <<visited, failed, noTasks, withTasks, evt, evtFailed, marked>>
    /\ UNCHANGED <<histVars, resolveVars, commitVars>>

Next ==
    \/ StartRun
    \/ LoadLedger
    \/ Search
    \/ GetMessage
    \/ Download
    \/ Attach
    \/ Body
    \/ Decide
    \/ CreateEvent
    \/ MarkRead
    \/ Save

Spec == Init /\ [][Next]_vars

\* -------------------------------------------------- the ledger calls alone
\* a call of load_processed_email_ids
LedgerLoad ==
    /\ \E outcome \in LoadOutcomes :
          /\ call' = [op |-> "load", id |-> 0, outcome |-> Seen(outcome)]
          /\ IF outcome = "OSError"
             THEN UNCHANGED processed_email_ids
             ELSE processed_email_ids' = Snapshot(ledger, outcome)
    /\ UNCHANGED <<ledger, SCOPES, pc, exc, excAt, message_ids, new_message_ids,
                   idx, downloaded, all_tasks_from_email, tix>>
    /\ UNCHANGED <<runVars, histVars, resolveVars, commitVars>>

\* a call of save_processed_email_id(email_id), for any id
LedgerSave ==
    /\ Len(ledger.lines) < MaxLedger
    /\ \E email_id \in Ids, outcome \in WriteOutcomes :
          \E n \in CutPoints(email_id) :
             /\ outcome = "cut_short" => CanCut(ledger, email_id, n)
             /\ call' = [op |-> "save", id |-> email_id,
                         outcome |-> Seen(outcome)]
             /\ ledger' = Written(ledger, email_id, outcome, n)
    /\ UNCHANGED <<SCOPES, pc, exc, excAt, processed_email_ids, message_ids,
                   new_message_ids, idx, downloaded, all_tasks_from_email, tix>>
    /\ UNCHANGED <<runVars, histVars, resolveVars, commitVars>>

LedgerNext == LedgerLoad \/ LedgerSave

LedgerSpec == Init /\ [][LedgerNext]_vars

\* ------------------------------------------- the window resolution alone
\* any task, under any reading of the clock
ResolveInit ==
    /\ Idle
    /\ workers = NoWorkers
    /\ before = <<>>
    /\ one_task \in TaskInputs
    /\ clock \in ClockReadings
    /\ duration_td = NotCalled
    /\ resolved = NotResolved
    /\ calls = <<>>

\* a call of parse_duration_string(one_task.suggestedDuration)
ParseDuration ==
    /\ duration_td = NotCalled
    /\ duration_td' = parse_duration_string(one_task.suggestedDuration)
    /\ UNCHANGED <<one_task, clock, resolved, calls>>
    /\ UNCHANGED <<progVars, runVars, histVars, ledgerVars, commitVars>>

\* create_calendar_events_from_tasks([task], ...) with a calendar service:
\* the turn of the loop of line 100 for the task. The window is resolved and,
\* its start being a date or a datetime, handed to create_event (line 168);
\* an exception of the resolution leaves the function before that
create_calendar_events_from_tasks ==
    /\ resolved = NotResolved
    /\ LET w == ResolveWindow(one_task, clock.today1, clock.hour, clock.today2)
       IN  /\ resolved' = w
           /\ calls' = IF w.exc = "None" /\ w.start # NoDue
                       THEN Append(calls, [start |-> w.start,
                                           end |-> w.end])
                       ELSE calls
    /\ UNCHANGED <<one_task, clock, duration_td>>
    /\ UNCHANGED <<progVars, runVars, histVars, ledgerVars, commitVars>>

ResolveNext == ParseDuration \/ create_calendar_events_from_tasks

ResolveSpec == ResolveInit /\ [][ResolveNext]_vars

\* ------------------------------------- two ledger appends at the same time
\* two workers, or two overlapping runs, each in save_processed_email_id
Workers == {1, 2}

\* what an earlier write that was cut inside an id has left of it
PartIds == UNION {{Prefix(id, n) : n \in CutPoints(id)} : id \in Ids} \ Ids

\* the file before the two calls: lines of one id each, the last one with or
\* without its '\n', or a part of an id without '\n' (an earlier write may
\* have been cut short)
InitialLedgers ==
    {file \in [lines : UNION {[1..k -> Ids \cup PartIds] : k \in 0..NumIds},
               eol : BOOLEAN] :
        /\ file.lines = <<>> => file.eol
        /\ \A i \in DOMAIN file.lines :
              file.lines[i] \in PartIds => i = Len(file.lines) /\ ~file.eol}

\* the two calls are entered with different ids
CommitInit ==
    /\ NotStarted
    /\ ledger \in InitialLedgers
    /\ before = ledger
    /\ workers \in {f \in [Workers -> [pc : {"called"}, email_id : Ids,
                                      position : {0}]] :
                      f[1].email_id # f[2].email_id}
    /\ one_task = PlainTask
    /\ clock = ClockReading(1, 1, 16, 1)
    /\ duration_td = NotCalled
    /\ resolved = NotResolved
    /\ calls = <<>>

\* line 45: open(PROCESSED_EMAIL_IDS_LOG, 'a'); the file is created when it is
\* missing and left as it is otherwise
SaveOpen(w) ==
    /\ workers[w].pc = "called"
    /\ \E outcome \in FileOutcomes :
          workers' = [workers EXCEPT
                         ![w].pc = IF outcome = "ok" THEN "opened" ELSE "raised",
                         ![w].position = Len(ledger.lines)]
    /\ UNCHANGED <<ledger, before>>
    /\ UNCHANGED <<SCOPES, pc, exc, excAt, processed_email_ids, message_ids,
                   new_message_ids, idx, downloaded, all_tasks_from_email, tix>>
    /\ UNCHANGED <<runVars, histVars, ledgerVars, resolveVars>>

\* line 46: f.write(email_id + '\n') fills the buffer of f
SaveWrite(w) ==
    /\ workers[w].pc = "opened"
    /\ workers' = [workers EXCEPT ![w].pc = "written"]
    /\ UNCHANGED <<ledger, before>>
    /\ UNCHANGED <<SCOPES, pc, exc, excAt, processed_email_ids, message_ids,
                   new_message_ids, idx, downloaded, all_tasks_from_email, tix>>
    /\ UNCHANGED <<runVars, histVars, ledgerVars, resolveVars>>

\* the end of the with block: f is flushed and closed, and the call returns;
\* a failing write raises and leaves the file as it is, or with a part of the
\* id or the whole id in it and no '\n'
SaveClose(w) ==
    /\ workers[w].pc = "written"
    /\ \E outcome \in WriteOutcomes, n \in CutPoints(workers[w].email_id) :
          /\ outcome = "cut_short" => CanCut(ledger, workers[w].email_id, n)
          /\ ledger' = IF outcome = "ok"
                       THEN flush_on_close(ledger, workers[w].position,
                                           workers[w].email_id)
                       ELSE Written(ledger, workers[w].email_id, outcome, n)
          /\ workers' = [workers EXCEPT
                            ![w].pc = IF outcome = "ok" THEN "returned"
                                      ELSE "raised"]
    /\ UNCHANGED before
    /\ UNCHANGED <<SCOPES, pc, exc, excAt, processed_email_ids, message_ids,
                   new_message_ids, idx, downloaded, all_tasks_from_email, tix>>
    /\ UNCHANGED <<runVars, histVars, ledgerVars, resolveVars>>

CommitNext == \E w \in Workers : SaveOpen(w) \/ SaveWrite(w) \/ SaveClose(w)

CommitSpec == CommitInit /\ [][CommitNext]_vars

\* ------------------------------------------------------------------ claims
\* the item's turn of the for loop of line 219 is over
Finished(id) ==
    \E k \in DOMAIN new_message_ids : new_message_ids[k] = id /\ k < idx

\* line 212 for one listed id: a run that has read snapshot takes the item up
StillCandidate(id, snapshot) == FilterNew(<<id>>, snapshot) = <<id>>

\* whatever the load of the next run returns, the run takes the item up if
\* the listing returns it
CandidateNextRun(id) ==
    \A snapshot \in Snapshots(ledger) : StillCandidate(id, snapshot)

\* C1 as stated: the tasks of one item id are handed to create_event in at
\* most one run: no id with events created by an earlier run has events
\* created by this run.
C1_EventsInOneRunOnly == created \cap evt = {}

\* C2 as stated: after a run in which every candidate gave tasks, had all its
\* events created and was committed, a run over the same candidate set calls
\* create_event zero times.
C2_SecondRunCreatesNothing ==
    (prev # {} /\ Range(message_ids) = prev) => evt = {}

\* C3 as stated: an id is in the ledger only if create_event succeeded for
\* every task of the item: an item with a failed create_event call is absent
\* from the ledger.
C3_PartialFailureNotCommitted ==
    \A id \in evtFailed : id \notin load_processed_email_ids(ledger)

\* C4 as stated: an item whose content gave no task is never handed on to
\* event creation, never marked as read and never appended in that run, and
\* the next run still takes it as a candidate.
C4_EmptyExtractionNotCommitted ==
    \A id \in noTasks :
       /\ id \notin evt
       /\ id \notin marked
       /\ id \notin Range(saved)
       /\ ~(pc \in {"create", "mark", "save"} /\ msg_id = id)
       /\ CandidateNextRun(id)

\* C5 as stated: a failure in a stage of one item aborts only that item: when
\* the run is over (for another reason than ledger I/O) every candidate has had
\* its turn, and no item with a failure was committed.
C5_FailureAbortsOnlyItem ==
    (pc = "done" /\ call.outcome = "ok") =>
       /\ \A id \in Range(new_message_ids) : id \in visited
       /\ \A id \in failed : id \notin Range(saved)

\* C6 as stated: an item with a collaborator failure during fetch, extract,
\* parse or materialize is not in the ledger after the run and the next run
\* takes it up again.
C6_FailedItemRetried ==
    \A id \in failed :
       id \notin load_processed_email_ids(ledger) /\ CandidateNextRun(id)

\* C7 as stated: the ledger only grows: every id a load has returned is
\* returned by every later load, whatever calls come in between.
C7_LedgerOnlyGrows ==
    [][(call'.op = "load" /\ call'.outcome = "ok")
          => processed_email_ids \subseteq processed_email_ids']_vars

\* C8 as stated: save_processed_email_id(id) on a ledger that holds id is a
\* no-op: when the call returns without an error, the persisted ledger, the
\* set of ids load_processed_email_ids reads from the file, is what it was
\* before the call.
C8_RecommitIsNoOp ==
    [][(/\ call'.op = "save" /\ call'.outcome = "ok"
        /\ call'.id \in load_processed_email_ids(ledger))
          => load_processed_email_ids(ledger')
                = load_processed_email_ids(ledger)]_vars

\* C9 as stated: every item with tasks and all its events created is appended
\* exactly once in the run.
C9_FullyProcessedAppendedOnce ==
    \A id \in Ids :
       (Finished(id) /\ id \in evt /\ id \notin evtFailed)
          => Count(saved, id) = 1

\* C9, amended: every item with tasks, all its events created and
\* mark_message_as_read returning True is appended exactly once when its turn
\* is over; no item is appended twice in a run; and an append comes after the
\* item's create_event calls and its mark-as-read, never before.
C9_MarkedItemAppendedOnceAtEnd ==
    \A id \in Ids :
       /\ Count(saved, id) <= 1
       /\ (Finished(id) /\ id \in evt /\ id \notin evtFailed /\ id \in marked)
             => Count(saved, id) = 1
       /\ id \in Range(saved) =>
             /\ id \in evt
             /\ id \in marked
             /\ ~(pc \in {"get", "download", "attach", "body", "decide",
                          "create", "mark", "save"} /\ msg_id = id)

\* an item had its events created, was marked as read and appended, and its
\* turn is over
C9_Witness ==
    \E id \in Ids :
       /\ Finished(id)
       /\ id \in evt /\ id \notin evtFailed /\ id \in marked
       /\ Count(saved, id) = 1

\* C10 as stated: a ledger I/O failure ends the run: after a failed read no
\* item is listed, fetched or materialized, and after a failed append the run
\* has stopped with the items after the current one untouched; a store that
\* cannot be read is not taken for an empty ledger: a run that goes on to the
\* listing has the ids of the file in its snapshot.
C10_LedgerFailureIsFatal ==
    /\ call.outcome # "ok" =>
          /\ pc = "done"
          /\ exc = call.outcome
          /\ call.op = "load" =>
                message_ids = <<>> /\ visited = {} /\ evt = {}
          /\ call.op = "save" =>
                visited = {new_message_ids[k] : k \in 1..idx}
    /\ (pc \in {"search", "get", "download", "attach", "body", "decide",
                "create", "mark", "save"} \/ message_ids # <<>>) =>
          load_processed_email_ids(ledger)
             \subseteq processed_email_ids \cup Range(saved)

\* ------------------------------------------ claims on the window resolution
\* C11 as stated: for every task whose dueDate is a datetime, the window handed
\* to create_event is start = that datetime and end = start +
\* parse_duration_string(suggestedDuration), whatever suggestedTimeOfDay holds
\* (absent, valid or malformed).
C11_ExplicitDateTimeWins ==
    (resolved # NotResolved /\ one_task.dueDate.kind = "datetime") =>
       LET d == parse_duration_string(one_task.suggestedDuration)
           start == one_task.dueDate
       IN  /\ d.exc = "None"
           /\ resolved = Window(start, AddMinutes(start, d.minutes))
           /\ calls = <<[start |-> start, end |-> AddMinutes(start, d.minutes)]>>

\* C12 as stated: for every task whose dueDate is a date without time and
\* whose suggestedTimeOfDay parses, the window starts on the day of dueDate at
\* the time of day of the suggested timestamp, whatever the day of that
\* timestamp, and ends a parsed duration later.
C12_SuggestionRefinesExplicitDate ==
    (/\ resolved # NotResolved
     /\ one_task.dueDate.kind = "date"
     /\ Truthy(one_task.suggestedTimeOfDay)
     /\ fromisoformat(one_task.suggestedTimeOfDay).exc = "None") =>
       LET d == parse_duration_string(one_task.suggestedDuration)
           llm_dt == fromisoformat(one_task.suggestedTimeOfDay).dt
           start == DateTimeOf(one_task.dueDate.day, llm_dt.minute)
       IN  /\ d.exc = "None"
           /\ resolved.exc = "None"
           /\ resolved.start.day = one_task.dueDate.day
           /\ resolved.start.minute = llm_dt.minute
           /\ resolved.end = AddMinutes(start, d.minutes)
           /\ calls = <<[start |-> start, end |-> AddMinutes(start, d.minutes)]>>

\* C13: for every task whose dueDate is a date without time and whose
\* suggestedTimeOfDay is absent, empty or does not parse, the window is the
\* all-day window [dueDate, dueDate + 1 day) whatever suggestedDuration holds,
\* and create_event is called with it.
C13_DateAloneDegradesToAllDay ==
    (/\ resolved # NotResolved
     /\ one_task.dueDate.kind = "date"
     /\ \/ ~Truthy(one_task.suggestedTimeOfDay)
        \/ fromisoformat(one_task.suggestedTimeOfDay).exc # "None") =>
       LET due == one_task.dueDate
       IN  /\ resolved = Window(due, AddDays(due, 1))
           /\ resolved.start.kind = "date" /\ resolved.end.kind = "date"
           /\ resolved.end.day = due.day + 1
           /\ calls = <<[start |-> due, end |-> AddDays(due, 1)]>>

\* a task with a date, a suggested timestamp that does not parse and a
\* duration text has been resolved and handed to create_event
C13_Witness ==
    /\ one_task.dueDate.kind = "date"
    /\ one_task.suggestedTimeOfDay = "not-a-date"
    /\ one_task.suggestedDuration = "45 minutes"
    /\ resolved.exc = "None"
    /\ Len(calls) = 1
    /\ calls[1].end = AddDays(one_task.dueDate, 1)

\* C14 as stated: for every task without dueDate whose suggestedTimeOfDay
\* parses, the window is start = the suggested timestamp, day and time, and
\* end = start + parse_duration_string(suggestedDuration).
C14_SuggestionAloneGivesStart ==
    (/\ resolved # NotResolved
     /\ one_task.dueDate.kind = "none"
     /\ Truthy(one_task.suggestedTimeOfDay)
     /\ fromisoformat(one_task.suggestedTimeOfDay).exc = "None") =>
       LET d == parse_duration_string(one_task.suggestedDuration)
           start == fromisoformat(one_task.suggestedTimeOfDay).dt
       IN  /\ d.exc = "None"
           /\ resolved = Window(start, AddMinutes(start, d.minutes))
           /\ calls = <<[start |-> start, end |-> AddMinutes(start, d.minutes)]>>

\* C15 as stated: for every task without dueDate and without a usable
\* suggestedTimeOfDay (absent, empty or malformed), the window starts at 09:00
\* of the current day when the current hour is below 17 and at 09:00 of the
\* day after when it is 17 or more, and ends one hour later, whatever
\* suggestedDuration holds. The current day and hour are those of the one
\* instant datetime.now() is read at.
C15_DefaultSlotOfNow ==
    (/\ resolved # NotResolved
     /\ one_task.dueDate.kind = "none"
     /\ \/ ~Truthy(one_task.suggestedTimeOfDay)
        \/ fromisoformat(one_task.suggestedTimeOfDay).exc # "None") =>
       LET event_date == IF clock.hour < EveningCutoffHour
                         THEN clock.now_day ELSE clock.now_day + 1
           start == DateTimeOf(event_date, DefaultStartMinute)
       IN  /\ resolved = Window(start, AddMinutes(start, MinutesPerHour))
           /\ calls = <<[start |-> start,
                        end |-> AddMinutes(start, MinutesPerHour)]>>

\* C16 as stated: window resolution never fails: for every task (dueDate
\* absent, date or datetime; suggestedTimeOfDay absent, valid or malformed;
\* suggestedDuration absent, a quantity with a unit, 'flexible' or other text)
\* a window is produced without raising and create_event is called once with
\* it.
C16_ResolutionNeverFails ==
    resolved # NotResolved =>
       /\ resolved.exc = "None"
       /\ resolved.start # NoDue /\ resolved.end # NoDue
       /\ calls = <<[start |-> resolved.start, end |-> resolved.end]>>

\* C17: every window create_event is called with ends after it starts, for
\* every task and every branch of the cascade, the tasks whose duration text
\* carries the quantity 0 included; an all-day window (its start a date) ends
\* on the day after its start.
C17_WindowEndsAfterStart ==
    \A i \in DOMAIN calls :
       LET start == calls[i].start
           end == calls[i].end
       IN  /\ \/ end.day > start.day
              \/ end.day = start.day /\ end.minute > start.minute
           /\ start.kind = "date" =>
                 end.kind = "date" /\ end.day = start.day + 1

\* a task whose duration text is '0 minutes' has reached create_event, with
\* the window of a branch that does not read the duration
C17_Witness ==
    /\ one_task.suggestedDuration = "0 minutes"
    /\ resolved.exc = "None"
    /\ calls = <<[start |-> resolved.start, end |-> resolved.end]>>

\* C18 as stated: parse_duration_string returns for every input (None, the
\* empty string, any text) without raising, and what it returns is more than
\* zero.
C18_DurationTotalAndPositive ==
    duration_td # NotCalled =>
       duration_td.exc = "None" /\ duration_td.minutes > 0

\* C19 as stated: for an input that starts with a decimal integer n and a unit
\* token, in any letter case, parse_duration_string returns n minutes for a
\* minutes token and n hours for an hours token.
C19_QuantityAndUnitHonoured ==
    LET quantity_texts ==
            {<<"45 minutes", 45>>, <<"0 minutes", 0>>,
             <<"2 hours", 2 * MinutesPerHour>>, <<"2 HOURS", 2 * MinutesPerHour>>}
    IN  \A q \in quantity_texts :
           (duration_td # NotCalled /\ one_task.suggestedDuration = q[1]) =>
              duration_td = [exc |-> "None", minutes |-> q[2]]

\* C20 as stated: parse_duration_string returns one hour for None, for the
\* empty string, for 'flexible' and for every other text that does not start
\* with a number and a unit token.
C20_FallbackIsOneHour ==
    (/\ duration_td # NotCalled
     /\ one_task.suggestedDuration \in {None, "", "flexible", "gibberish"}) =>
       duration_td = [exc |-> "None", minutes |-> MinutesPerHour]

\* C21 as stated: window resolution is a function of the task and the current
\* time: two resolutions of one task under clocks that give the same current
\* day and hour give the same window, in every branch; the day choice and the
\* hour test of the default slot use that one current time.
C21_SameNowSameWindow ==
    resolved # NotResolved =>
       \A other \in ClockReadings :
          (other.now_day = clock.now_day /\ other.hour = clock.hour) =>
             ResolveWindow(one_task, other.today1, other.hour, other.today2)
                = resolved

\* ------------------------------------------------ claims on the run, again
\* C22: the ledger is read once per run, before any item is processed: from
\* the listing on, the snapshot holds none of the ids the run appends; an item
\* whose id is in the snapshot is never fetched, extracted, parsed or
\* materialized in the run; and the candidates of the run are those the
\* snapshot left, whatever the run commits.
C22_SnapshotReadOnceDecidesItems ==
    (pc \in {"get", "download", "attach", "body", "decide", "create", "mark",
             "save"} \/ message_ids # <<>>) =>
       /\ processed_email_ids \cap Range(saved) = {}
       /\ Range(new_message_ids) = Range(message_ids) \ processed_email_ids
       /\ Len(new_message_ids) = Cardinality(Range(new_message_ids))
       /\ visited \subseteq Range(new_message_ids)
       /\ (visited \cup evt \cup marked \cup noTasks \cup failed)
             \cap processed_email_ids = {}

\* a run listed an item of its snapshot beside a new one, committed the new
\* one and ended without having touched the first
C22_Witness ==
    /\ pc = "done" /\ exc = "None"
    /\ \E old, new \in Ids :
          /\ old \in processed_email_ids /\ old \in Range(message_ids)
          /\ old \notin visited
          /\ new \in Range(saved) /\ new \notin processed_email_ids

\* C23: items are processed one after another in candidate-list order: the
\* items the loop has reached are a prefix of the candidate list, only the
\* item at the loop position is in a stage, every stage result (failure, no
\* task, event, mark, append) belongs to an item the loop has reached, none to
\* an item further on, and the appends come in list order.
C23_OneItemAtATimeInListOrder ==
    /\ \E n \in {idx - 1, idx} :
          /\ n \in 0..Len(new_message_ids)
          /\ visited = {new_message_ids[k] : k \in 1..n}
    /\ pc = "get" => visited = {new_message_ids[k] : k \in 1..(idx - 1)}
    /\ pc \in {"download", "attach", "body", "decide", "create", "mark", "save"}
          => /\ idx \in DOMAIN new_message_ids
             /\ visited = {new_message_ids[k] : k \in 1..idx}
    /\ (failed \cup noTasks \cup evt \cup marked \cup Range(saved))
          \subseteq visited
    /\ \A k \in DOMAIN new_message_ids :
          k > idx => new_message_ids[k] \notin
                        (failed \cup noTasks \cup evt \cup marked \cup Range(saved))
    /\ \A i, j \in DOMAIN saved :
          i < j => \E a, b \in DOMAIN new_message_ids :
                      a < b /\ new_message_ids[a] = saved[i]
                            /\ new_message_ids[b] = saved[j]

\* the first candidate is through all its stages and committed, the second is
\* in its mark-as-read stage with its events created
C23_Witness ==
    /\ Len(new_message_ids) >= 2
    /\ idx = 2 /\ pc = "mark"
    /\ saved = <<new_message_ids[1]>>
    /\ new_message_ids[2] \in evt

\* C24 as stated: mark_message_as_read never raises to the pipeline: whatever
\* fails (no service, no modify scope, the remote call), it returns False, so
\* no run is ended by an exception of the mark-as-read stage.
C24_MarkNeverRaises == ~(pc = "done" /\ exc # "None" /\ excAt = "mark")

\* ------------------------------------------ claims on concurrent commits
\* C25 as stated: two calls of save_processed_email_id with different ids,
\* their steps interleaved in any way: once both calls have returned, both ids
\* are in the ledger and every id the ledger held before is still in it.
C25_ConcurrentCommitsKeepBoth ==
    (\A w \in Workers : workers[w].pc = "returned") =>
       /\ \A w \in Workers :
             workers[w].email_id \in load_processed_email_ids(ledger)
       /\ load_processed_email_ids(before)
             \subseteq load_processed_email_ids(ledger)

\* ------------------------------------------ claims on the run, continued
\* C26 as stated: a run that reaches its end has reported counts that add up
\* to the number of candidates the listing returned, each candidate counted
\* once. The counts a run prints are len(processed_email_ids) (line 203, the
\* already processed) and len(new_message_ids) (line 213, those to process).
C26_SummaryCountsAddUp ==
    (pc = "done" /\ exc = "None") =>
       LET already_processed == Cardinality(processed_email_ids)
           to_process == Len(new_message_ids)
       IN  already_processed + to_process = Len(message_ids)

\* C27 as stated: the ledger append is gated on mark-as-read and follows it: the file
\* changes only by the append of the item in its save stage, after its events
\* were created and mark_message_as_read returned True for it; and an item
\* whose events were created and whose mark-as-read returned False is not
\* appended: it is absent from the ledger and the next run takes it up again.
C27_AppendFollowsSuccessfulMark ==
    /\ [][ledger' # ledger =>
             /\ pc = "save"
             /\ msg_id \in marked /\ msg_id \in evt
             /\ ledger' \in {Written(ledger, msg_id, outcome, n) :
                               outcome \in WriteOutcomes,
                               n \in CutPoints(msg_id)}]_vars
    /\ [](\A id \in Ids :
             (Finished(id) /\ id \in evt /\ id \notin marked) =>
                /\ id \notin Range(saved)
                /\ id \notin load_processed_email_ids(ledger)
                /\ CandidateNextRun(id))

\* C28 as stated: in a run under the client's default scopes (read-only)
\* mark_message_as_read returns False for every message: no item is marked,
\* none reaches the save stage and the ledger stays as the run found it; with
\* a ledger that never gained an id every listed item is a candidate again,
\* and every item that gave tasks has its events created in the run: when the
\* run is over create_event has been called for it.
C28_ReadOnlyRunsCreateAgain ==
    SCOPES = "readonly" =>
       /\ marked = {}
       /\ saved = <<>>
       /\ pc # "save"
       /\ (pc \in {"get", "download", "attach", "body", "decide", "create",
                   "mark"} \/ message_ids # <<>>) =>
             processed_email_ids \subseteq load_processed_email_ids(ledger)
       /\ (ledger = NoFile /\ message_ids # <<>>)
             => new_message_ids = message_ids
       /\ pc = "done" => withTasks \subseteq evt

\* C29: no task crosses from one item to another: from the reset of the task
\* list on, through extraction, event creation, mark-as-read and append, every
\* task in the list was read from the item at the loop position, whatever
\* became of the items before it.
C29_TasksOfCurrentItemOnly ==
    pc \in {"attach", "body", "decide", "create", "mark", "save"} =>
       /\ \A i \in DOMAIN all_tasks_from_email :
             all_tasks_from_email[i].origin = msg_id
       /\ pc = "body" => all_tasks_from_email = <<>>

\* the first item gave tasks, had its events created and was left uncommitted;
\* the second is about to have the events of its own tasks created
C29_Witness ==
    /\ idx = 2 /\ pc = "create"
    /\ new_message_ids[1] \in evt
    /\ new_message_ids[1] \notin marked
    /\ all_tasks_from_email # <<>>
    /\ \A i \in DOMAIN all_tasks_from_email :
          all_tasks_from_email[i].origin = new_message_ids[2]

\* C30 as stated: when every collaborator call and every ledger call returns,
\* the run visits each candidate that is not in the snapshot once and then
\* reaches its end: a run that is over without an exception raised by a
\* collaborator or by the ledger file has reached line 277 (or returned at
\* line 217) with every candidate visited.
C30_RunVisitsEveryCandidate ==
    (pc = "done" /\ exc \notin {"Exception", "OSError"}) =>
       /\ exc = "None"
       /\ visited = Range(new_message_ids)
       /\ new_message_ids # <<>> => idx = Len(new_message_ids) + 1

====
